---- MODULE Spec2Model ----
(***************************************************************************)
(* Model of src/app.js: the schedule extraction pipeline of the SE-C       *)
(* schedule page (section classifier, batch-color match, grid parser) and  *)
(* the fetch orchestrator fetchSchedule with its cache fallback.           *)
(*                                                                         *)
(* Text is modelled as a sequence of one-character strings, so that        *)
(* includes, toUpperCase, toLowerCase and trim are computed and not        *)
(* assumed.  Color channels are modelled in thousandths (0.522 is 522).    *)
(* Indices are those of the source (0-based); At(seq, i) is seq[i].         *)
(***************************************************************************)
EXTENDS Integers, Sequences, FiniteSets, TLC

VARIABLES
    \* ---- fetch orchestrator (state object, one record per invocation) ----
    pc,             \* per invocation: "idle" | "fetching" | "done"
    days,           \* per invocation, per sheet: "pending" | "ok" | "failed"
    arr,            \* per invocation: the local array `schedule` (line 419)
    successCount,   \* per invocation: the local successCount (line 420)
    outcome,        \* per invocation: branch taken when it finished
    loaded,         \* per invocation: the array parsed from the cache (line 447)
    schedRef,       \* state.schedule, as a reference to an array
    dataSource,     \* state.dataSource
    lastUpdated,    \* state.lastUpdated (0 is null)
    isLoading,      \* state.isLoading
    error,          \* state.error
    cacheList,      \* localStorage[CACHE_KEY]
    cacheTs,        \* localStorage[CACHE_TIMESTAMP_KEY]
    now,            \* the wall clock
    timerOn,        \* startAutoRefresh has run
    dayResult,      \* history: per invocation, per sheet, the sessions its callback pushed
    cacheWrite,     \* history: per invocation, how its cacheSchedule call went
    log,            \* history: the invocations' starts and finishes, in order
    \* ---- one day callback on one sheet (parser checks) ----
    pGrid, pDay, pOut,
    \* ---- one color (classifier checks) ----
    cColor, cOut,
    \* ---- one time text (time checks) ----
    tIn, tOut,
    \* ---- one call of getNextClass (next-class checks) ----
    todayClasses, currentMinutes, nOut

ovars == <<pc, days, arr, successCount, outcome, loaded, schedRef, dataSource,
           lastUpdated, isLoading, error, cacheList, cacheTs, now, timerOn,
           dayResult, cacheWrite, log>>
pvars == <<pGrid, pDay, pOut>>
cvars == <<cColor, cOut>>
tvars == <<tIn, tOut>>
nvars == <<todayClasses, currentMinutes, nOut>>
vars == <<ovars, pvars, cvars, tvars, nvars>>

(***************************************************************************)
(* Text                                                                    *)
(***************************************************************************)
LowerChars == <<"a","b","c","d","e","f","g","h","i","j","k","l","m",
                "n","o","p","q","r","s","t","u","v","w","x","y","z">>
UpperChars == <<"A","B","C","D","E","F","G","H","I","J","K","L","M",
                "N","O","P","Q","R","S","T","U","V","W","X","Y","Z">>
Digits == {"0","1","2","3","4","5","6","7","8","9"}
EnDash == "endash"
Whitespace == {" ", "\n", "\t"}

UpperOf(ch) ==
    IF \E i \in 1..26 : LowerChars[i] = ch
    THEN UpperChars[CHOOSE i \in 1..26 : LowerChars[i] = ch]
    ELSE ch

LowerOf(ch) ==
    IF \E i \in 1..26 : UpperChars[i] = ch
    THEN LowerChars[CHOOSE i \in 1..26 : UpperChars[i] = ch]
    ELSE ch

toUpperCase(s) == [i \in 1..Len(s) |-> UpperOf(s[i])]
toLowerCase(s) == [i \in 1..Len(s) |-> LowerOf(s[i])]

includes(s, sub) ==
    \E i \in 1..(Len(s) - Len(sub) + 1) : SubSeq(s, i, i + Len(sub) - 1) = sub

trim(s) ==
    IF \A i \in 1..Len(s) : s[i] \in Whitespace THEN <<>>
    ELSE LET a == CHOOSE i \in 1..Len(s) :
                      s[i] \notin Whitespace /\ \A j \in 1..(i - 1) : s[j] \in Whitespace
             b == CHOOSE i \in 1..Len(s) :
                      s[i] \notin Whitespace /\ \A j \in (i + 1)..Len(s) : s[j] \in Whitespace
         IN SubSeq(s, a, b)

\* \d{1,2}:\d{2} at position i: the number of characters matched, 0 for none.
TimeAt(s, i) ==
    IF /\ i + 4 <= Len(s)
       /\ s[i] \in Digits /\ s[i + 1] \in Digits /\ s[i + 2] = ":"
       /\ s[i + 3] \in Digits /\ s[i + 4] \in Digits
    THEN 5
    ELSE IF /\ i + 3 <= Len(s)
            /\ s[i] \in Digits /\ s[i + 1] = ":"
            /\ s[i + 2] \in Digits /\ s[i + 3] \in Digits
         THEN 4
         ELSE 0

\* \s* from position i: the first position that holds no whitespace.
RECURSIVE SkipSpace(_, _)
SkipSpace(s, i) ==
    IF i <= Len(s) /\ s[i] \in Whitespace THEN SkipSpace(s, i + 1) ELSE i

\* EMBEDDED_TIME_PATTERN at position i: the places of its parts
\* (first time, dash, second time, end), ok FALSE for no match.
PatternAt(s, i) ==
    LET n1 == TimeAt(s, i)
        d  == SkipSpace(s, i + n1)
        t2 == SkipSpace(s, d + 1)
        n2 == TimeAt(s, t2)
    IN [ok |-> n1 > 0 /\ d <= Len(s) /\ s[d] \in {"-", EnDash} /\ n2 > 0,
        from |-> i, n1 |-> n1, t2 |-> t2, n2 |-> n2]

HasPattern(s) == \E i \in 1..Len(s) : PatternAt(s, i).ok

\* The leftmost match, as String.prototype.match and replace find it.
FirstPattern(s) ==
    PatternAt(s, CHOOSE i \in 1..Len(s) :
                     /\ PatternAt(s, i).ok
                     /\ \A j \in 1..(i - 1) : ~PatternAt(s, j).ok)

\* match[1].replace(/\s+/g, '').replace(EnDash, '-') of the match m.
NormalizedMatch(s, m) ==
    SubSeq(s, m.from, m.from + m.n1 - 1) \o <<"-">> \o SubSeq(s, m.t2, m.t2 + m.n2 - 1)

\* s.replace(EMBEDDED_TIME_PATTERN, '') for the match m.
WithoutMatch(s, m) ==
    SubSeq(s, 1, m.from - 1) \o SubSeq(s, m.t2 + m.n2, Len(s))

\* null is the empty text: callers only test the result for truthiness.
extractEmbeddedTime(cellText) ==
    IF cellText = <<>> \/ ~HasPattern(cellText) THEN <<>>
    ELSE NormalizedMatch(cellText, FirstPattern(cellText))

\* Case-insensitive literal at position i.
CiAt(s, i, word) ==
    /\ i + Len(word) - 1 <= Len(s)
    /\ toLowerCase(SubSeq(s, i, i + Len(word) - 1)) = word

KwCancel == <<"c","a","n","c","e","l">>
KwReschedule == <<"r","e","s","c","h","e","d","u","l","e">>
KwPostpone == <<"p","o","s","t","p","o","n","e">>
KwMakeup == <<"m","a","k","e","u","p">>
KwSection == <<"(","s","e","-","c",")">>

\* Length of the match at position i of the global, case-insensitive regex
\* of each kind: /cancell?e?d/, /rescheduled?/, /postponed?/, /makeup/,
\* /\(SE-C\)/; 0 for no match.  Optional parts are greedy.
KeywordLen(kind, s, i) ==
    CASE kind = "cancel" ->
            IF CiAt(s, i, KwCancel \o <<"l","e","d">>) THEN 9
            ELSE IF CiAt(s, i, KwCancel \o <<"l","d">>) THEN 8
            ELSE IF CiAt(s, i, KwCancel \o <<"e","d">>) THEN 8
            ELSE IF CiAt(s, i, KwCancel \o <<"d">>) THEN 7
            ELSE 0
      [] kind = "reschedule" ->
            IF CiAt(s, i, KwReschedule \o <<"d">>) THEN 11
            ELSE IF CiAt(s, i, KwReschedule) THEN 10
            ELSE 0
      [] kind = "postpone" ->
            IF CiAt(s, i, KwPostpone \o <<"d">>) THEN 9
            ELSE IF CiAt(s, i, KwPostpone) THEN 8
            ELSE 0
      [] kind = "makeup" -> IF CiAt(s, i, KwMakeup) THEN 6 ELSE 0
      [] OTHER -> IF CiAt(s, i, KwSection) THEN 6 ELSE 0

\* s.replace(<regex of kind>/gi, '') from position i on.
RECURSIVE RemoveKeyword(_, _, _)
RemoveKeyword(kind, s, i) ==
    IF i > Len(s) THEN <<>>
    ELSE LET n == KeywordLen(kind, s, i)
         IN IF n > 0 THEN RemoveKeyword(kind, s, i + n)
            ELSE <<s[i]>> \o RemoveKeyword(kind, s, i + 1)

\* s.replace(/\s+/g, ' ') from position i on.
RECURSIVE CollapseSpace(_, _)
CollapseSpace(s, i) ==
    IF i > Len(s) THEN <<>>
    ELSE IF s[i] \in Whitespace
         THEN <<" ">> \o CollapseSpace(s, SkipSpace(s, i))
         ELSE <<s[i]>> \o CollapseSpace(s, i + 1)

cleanSubjectName(cellText, embeddedTime) ==
    IF cellText = <<>> THEN <<>>
    ELSE trim(CollapseSpace(
             RemoveKeyword("section",
                           IF embeddedTime # <<>> /\ HasPattern(cellText)
                           THEN WithoutMatch(cellText, FirstPattern(cellText))
                           ELSE cellText,
                           1),
             1))

\* Lines 196-208: which status keyword the content holds, first match wins.
StatusKind(contentLower) ==
    IF includes(contentLower, KwCancel) THEN "cancel"
    ELSE IF includes(contentLower, KwReschedule) THEN "reschedule"
    ELSE IF includes(contentLower, KwPostpone) THEN "postpone"
    ELSE IF includes(contentLower, KwMakeup) THEN "makeup"
    ELSE "none"

StatusOf(kind) ==
    CASE kind = "cancel" -> "cancelled"
      [] kind \in {"reschedule", "postpone"} -> "rescheduled"
      [] kind = "makeup" -> "makeup"
      [] OTHER -> "normal"

CleanContent(content, kind) ==
    IF kind = "none" THEN content ELSE trim(RemoveKeyword(kind, content, 1))

\* Lines 210-216.
SubjectAndTime(cleanContent, status, embeddedTime) ==
    [subject |-> cleanSubjectName(cleanContent, embeddedTime),
     status |-> status, embeddedTime |-> embeddedTime]

StatusParsed(content, kind) ==
    SubjectAndTime(CleanContent(content, kind), StatusOf(kind),
                   extractEmbeddedTime(CleanContent(content, kind)))

parseSubjectAndStatus(content) ==
    IF content = <<>>
    THEN [subject |-> <<>>, status |-> "normal", embeddedTime |-> <<>>]
    ELSE StatusParsed(content, StatusKind(toLowerCase(content)))

isLabRoom(room) == room # <<>> /\ includes(toLowerCase(room), <<"l","a","b">>)

LabTimes == { <<"0","8",":","3","0","-","1","1",":","1","5">>,
              <<"1","1",":","3","0","-","0","2",":","1","5">>,
              <<"0","2",":","3","0","-","0","5",":","1","5">> }

isLabTimeSlot(time) ==
    IF time = <<>> THEN FALSE
    ELSE \E labTime \in LabTimes : includes(time, labTime) \/ includes(labTime, time)

(***************************************************************************)
(* Times: formatTime (lines 113-120) and timeToMinutes (lines 254-263)     *)
(***************************************************************************)
\* The value of a sum that has NaN or undefined as an operand.
NaN == -1

\* String.prototype.split on a one-character separator.
RECURSIVE split(_, _)
split(s, sep) ==
    IF \A i \in 1..Len(s) : s[i] # sep THEN << s >>
    ELSE LET at == CHOOSE i \in 1..Len(s) : s[i] = sep /\ \A j \in 1..(i - 1) : s[j] # sep
         IN << SubSeq(s, 1, at - 1) >> \o split(SubSeq(s, at + 1, Len(s)), sep)

\* Lines 115-119; parts[1] is undefined when there is no hyphen.
formatTime(timeStr) ==
    IF timeStr = <<>> THEN [start |-> <<>>, end |-> <<>>]
    ELSE [start |-> trim(split(timeStr, "-")[1]),
          end |-> IF Len(split(timeStr, "-")) >= 2 THEN trim(split(timeStr, "-")[2])
                  ELSE <<>>]

\* /[^\d:]/: a character that line 256 removes.
IsTimeChar(ch) == ch \in Digits \/ ch = ":"

DigitValue(ch) ==
    CASE ch = "0" -> 0 [] ch = "1" -> 1 [] ch = "2" -> 2 [] ch = "3" -> 3
      [] ch = "4" -> 4 [] ch = "5" -> 5 [] ch = "6" -> 6 [] ch = "7" -> 7
      [] ch = "8" -> 8 [] OTHER -> 9

\* parseInt of text from position i on, acc being the digits read so far:
\* the leading digits, NaN when there is none.
RECURSIVE ParseDigits(_, _, _)
ParseDigits(s, i, acc) ==
    IF i <= Len(s) /\ s[i] \in Digits
    THEN ParseDigits(s, i + 1, (IF acc = NaN THEN 0 ELSE acc) * 10 + DigitValue(s[i]))
    ELSE acc

parseInt(s) == ParseDigits(s, 1, NaN)

\* parseInt(s) || 0 (line 257): NaN and 0 are both falsy.
ParseIntOrZero(s) == IF parseInt(s) = NaN THEN 0 ELSE parseInt(s)

\* An afternoon shift that takes in hour 6.
AdjustedHours_ThroughSix(hours) ==
    IF hours >= 1 /\ hours <= 6 THEN hours + 12 ELSE hours

\* Lines 258-261.
AdjustedHours(hours) ==
    IF hours >= 1 /\ hours <= 5 THEN hours + 12 ELSE hours

\* Lines 257-262 on the parts of cleanTime; minutes is undefined, and the sum
\* NaN, when cleanTime holds no colon.
MinutesOfParts(parts) ==
    IF Len(parts) < 2 THEN NaN
    ELSE AdjustedHours(ParseIntOrZero(parts[1])) * 60 + ParseIntOrZero(parts[2])

timeToMinutes(timeStr) ==
    IF timeStr = <<>> THEN 0
    ELSE MinutesOfParts(split(SelectSeq(timeStr, IsTimeChar), ":"))

(***************************************************************************)
(* Next class: getNextClass (lines 265-279).  A class is [subject, time];  *)
(* currentMinutes is now.getHours() * 60 + now.getMinutes().               *)
(***************************************************************************)
\* Lines 270-274: the class with its start minute.
WithStartMinutes(cls) ==
    [subject |-> cls.subject, time |-> cls.time,
     startMinutes |-> timeToMinutes(formatTime(cls.time).start)]

\* A filter that keeps a class starting at the current minute.
Upcoming_FromNow(classes, current) ==
    LET Keeps(cls) == cls.startMinutes >= current
    IN SelectSeq(classes, Keeps)

\* Line 275; NaN > currentMinutes is false.
Upcoming(classes, current) ==
    LET Keeps(cls) == cls.startMinutes # NaN /\ cls.startMinutes > current
    IN SelectSeq(classes, Keeps)

\* Line 276: Array.prototype.sort is stable; cls goes after every class of
\* sorted that does not start later.
InsertByStart(sorted, cls) ==
    LET before == { i \in 0..Len(sorted) :
                      \A j \in 1..i : sorted[j].startMinutes <= cls.startMinutes }
        at == CHOOSE i \in before : \A k \in before : k <= i
    IN SubSeq(sorted, 1, at) \o << cls >> \o SubSeq(sorted, at + 1, Len(sorted))

RECURSIVE SortByStart(_)
SortByStart(classes) ==
    IF classes = <<>> THEN <<>>
    ELSE InsertByStart(SortByStart(SubSeq(classes, 1, Len(classes) - 1)),
                       classes[Len(classes)])

\* Line 278 on the sorted list.
FirstOrNull(upcoming) == IF upcoming = <<>> THEN [subject |-> 0, time |-> <<>>, startMinutes |-> NaN]
                         ELSE upcoming[1]

getNextClass(classes, current) ==
    FirstOrNull(SortByStart(Upcoming(
        [i \in 1..Len(classes) |-> WithStartMinutes(classes[i])], current)))

(***************************************************************************)
(* Section and batch classifier                                            *)
(***************************************************************************)
SectionMarker == <<"(", "S", "E", "-", "C", ")">>

\* A test for the section name without its parentheses.
isSectionC_NoParens(content) ==
    IF content = <<>> THEN FALSE
    ELSE includes(toUpperCase(content), <<"S", "E", "-", "C">>)

isSectionC(content) ==
    IF content = <<>> THEN FALSE
    ELSE includes(toUpperCase(content), SectionMarker)

\* CONFIG.BATCH_COLOR and CONFIG.COLOR_TOLERANCE, in thousandths.
BatchRed == 522
BatchGreen == 125
BatchBlue == 47
ColorTolerance == 50

\* A channel the response leaves out.
Absent == -1

NoColor == [present |-> FALSE, red |-> Absent, green |-> Absent, blue |-> Absent]
Color(r, g, b) == [present |-> TRUE, red |-> r, green |-> g, blue |-> b]

\* !x of a channel: undefined and 0 are both falsy.
Falsy(ch) == ch = Absent \/ ch = 0

Abs(x) == IF x < 0 THEN -x ELSE x

matchesBatchColor(cellColor) ==
    IF \/ ~cellColor.present
       \/ Falsy(cellColor.red) \/ Falsy(cellColor.green) \/ Falsy(cellColor.blue)
    THEN FALSE
    ELSE /\ Abs(cellColor.red - BatchRed) <= ColorTolerance
         /\ Abs(cellColor.green - BatchGreen) <= ColorTolerance
         /\ Abs(cellColor.blue - BatchBlue) <= ColorTolerance

(***************************************************************************)
(* Grid parser                                                             *)
(*                                                                         *)
(* gridData is [hasRowData, rowData]; a row is [hasValues, values]; a cell *)
(* is [fv, bg]: formattedValue ('' when the cell or the field is missing,  *)
(* which is what `cell?.formattedValue || ''` yields) and                  *)
(* effectiveFormat.backgroundColor.                                        *)
(***************************************************************************)
At(seq, i) == seq[i + 1]

Min(a, b) == IF a < b THEN a ELSE b

\* A scan that reaches one row further.
HeaderScanLimit_OneMore == 10 + 1

\* The number of leading rows searched for the header row (line 328).
HeaderScanLimit == 10

\* Lines 332-339: some column j >= 1 holds text with both ':' and '-'.
RowHasTimeRange(row) ==
    /\ row.hasValues
    /\ \E j \in 1..(Len(row.values) - 1) :
           LET value == At(row.values, j).fv
           IN includes(value, <<":">>) /\ includes(value, <<"-">>)

\* Lines 325-341: the loop from row i on; -1 when it finds none.
RECURSIVE ScanHeaderRow(_, _)
ScanHeaderRow(rows, i) ==
    IF i >= Min(HeaderScanLimit, Len(rows)) THEN -1
    ELSE IF RowHasTimeRange(At(rows, i)) THEN i
         ELSE ScanHeaderRow(rows, i + 1)

FindHeaderRow(rows) == ScanHeaderRow(rows, 0)

\* Lines 349-356: the time columns of the header row, from column j on.
RECURSIVE TimeColumnsFrom(_, _)
TimeColumnsFrom(headerRow, j) ==
    IF j >= Len(headerRow.values) THEN <<>>
    ELSE (IF includes(At(headerRow.values, j).fv, <<":">>)
          THEN << [index |-> j, time |-> trim(At(headerRow.values, j).fv)] >>
          ELSE <<>>) \o TimeColumnsFrom(headerRow, j + 1)

TimeColumns(headerRow) == TimeColumnsFrom(headerRow, 1)

\* Lines 393-402.
Session(day, finalTime, parsed, room, cellContent) ==
    [day |-> day,
     time |-> finalTime,
     subject |-> parsed.subject,
     room |-> trim(room),
     isLab |-> isLabRoom(room) \/ isLabTimeSlot(finalTime),
     status |-> parsed.status,
     teacher |-> <<>>,
     rawContent |-> cellContent]

\* Lines 386-402: embedded time if present, otherwise the column's time.
ParsedSession(day, time, parsed, room, cellContent) ==
    Session(day, IF parsed.embeddedTime # <<>> THEN parsed.embeddedTime ELSE time,
            parsed, room, cellContent)

\* Lines 380-403: the session of one cell, or nothing.
CellSessions(cell, time, room, day) ==
    IF isSectionC(cell.fv) /\ matchesBatchColor(cell.bg)
    THEN << ParsedSession(day, time, parseSubjectAndStatus(cell.fv), room, cell.fv) >>
    ELSE <<>>

\* Lines 372-404: the time columns of one row, from the k-th one on.
RECURSIVE ColumnSessions(_, _, _, _, _)
ColumnSessions(row, timeColumns, k, room, day) ==
    IF k >= Len(timeColumns) THEN <<>>
    ELSE (IF At(timeColumns, k).index >= Len(row.values) THEN <<>>
          ELSE CellSessions(At(row.values, At(timeColumns, k).index),
                            At(timeColumns, k).time, room, day))
         \o ColumnSessions(row, timeColumns, k + 1, room, day)

\* Lines 367-369: a row that is a divider, or has no room label.
SkippedRoom(room, roomLower) ==
    \/ room = <<>>
    \/ includes(roomLower, <<"l","a","b"," ","s","e","s","s","i","o","n","s">>)
    \/ includes(roomLower, <<"t","i","m","e","t","a","b","l","e">>)

RoomSessions(row, timeColumns, room, day) ==
    IF SkippedRoom(room, toLowerCase(room)) THEN <<>>
    ELSE ColumnSessions(row, timeColumns, 0, room, day)

\* Lines 360-404: one data row.
RowSessions(row, timeColumns, day) ==
    IF ~row.hasValues THEN <<>>
    ELSE RoomSessions(row, timeColumns,
                      IF Len(row.values) = 0 THEN <<>> ELSE At(row.values, 0).fv, day)

\* Lines 359-405: the rows from row i on.
RECURSIVE DataRows(_, _, _, _)
DataRows(rows, timeColumns, i, day) ==
    IF i >= Len(rows) THEN <<>>
    ELSE RowSessions(At(rows, i), timeColumns, day)
             \o DataRows(rows, timeColumns, i + 1, day)

\* Lines 343-407, with the header row found.
SessionsUnder(rows, headerRowIndex, day) ==
    IF headerRowIndex = -1 THEN <<>>
    ELSE DataRows(rows, TimeColumns(At(rows, headerRowIndex)), headerRowIndex + 1, day)

parseGoogleSheetData(gridData, day) ==
    IF ~gridData.hasRowData THEN <<>>
    ELSE SessionsUnder(gridData.rowData, FindHeaderRow(gridData.rowData), day)

\* Lines 426-431: what a day callback whose fetch succeeded does to the
\* invocation's local array and counter.
DayCallback(schedule, count, gridData, day) ==
    [schedule |-> schedule \o parseGoogleSheetData(gridData, day),
     successCount |-> count + 1]

(***************************************************************************)
(* Sheets the spreadsheet source may return                                *)
(***************************************************************************)
Txt_Room == <<"R","o","o","m">>
Txt_Slot1 == <<"9",":","3","0","-","1","1",":","1","5">>
Txt_Slot2 == <<" ","1","1",":","3","0","-","0","2",":","1","5">>
Txt_Note == <<"W","e","e","k",":"," ","4">>
Txt_R1 == <<"R","-","1"," ">>
Txt_Lab == <<"L","a","b"," ","2">>
Txt_Divider == <<"L","A","B"," ","S","e","s","s","i","o","n","s">>
Txt_OS == <<"O","S"," ","(","S","E","-","C",")">>
Txt_OSLower == <<"o","s"," ","(","s","e","-","c",")">>
Txt_DB == <<"D","B","\n","(","S","E","-","C",")"," ","1","0",":","0","0"," ",EnDash," ","1",":","1","5">>
Txt_Cancelled == <<"C","a","n","c","e","l","l","e","d"," ","A","I"," ","(","S","E","-","C",")">>
Txt_OtherSection == <<"O","S"," ","(","S","E","-","A",")">>
Txt_NoParens == <<"O","S"," ","S","E","-","C">>

BatchColorCell == Color(522, 125, 47)
NearColorCell == Color(541, 110, 12)
FarColorCell == Color(600, 125, 47)
ZeroBlueCell == Color(522, 125, 0)

Cell(fv, bg) == [fv |-> fv, bg |-> bg]
Plain(fv) == Cell(fv, NoColor)
Row(values) == [hasValues |-> TRUE, values |-> values]
NoValuesRow == [hasValues |-> FALSE, values |-> <<>>]
Grid(rows) == [hasRowData |-> TRUE, rowData |-> rows]
\* data.sheets?.[0]?.data?.[0] is undefined, or the sheet has no rowData.
NoGrid == [hasRowData |-> FALSE, rowData |-> <<>>]

HeaderRows ==
    { Row(<<Plain(Txt_Room), Plain(Txt_Slot1), Plain(Txt_Slot2)>>),
      Row(<<Plain(Txt_Slot1), Plain(Txt_Note), Plain(Txt_Slot2)>>),
      Row(<<Plain(<<>>), Plain(<<>>), Plain(Txt_Slot1)>>) }

\* Rows that hold no time range beyond column 0.
PadRows ==
    { NoValuesRow,
      Row(<<Plain(Txt_Slot1), Plain(Txt_Note), Cell(Txt_OS, BatchColorCell)>>) }

SheetDataRows ==
    { Row(<<Plain(Txt_R1), Cell(Txt_OS, BatchColorCell), Cell(Txt_Cancelled, BatchColorCell)>>),
      Row(<<Plain(Txt_Lab), Cell(Txt_OSLower, NearColorCell), Cell(Txt_DB, BatchColorCell)>>),
      Row(<<Plain(Txt_R1), Cell(Txt_OtherSection, BatchColorCell), Cell(Txt_NoParens, BatchColorCell)>>),
      Row(<<Plain(Txt_R1), Cell(Txt_OS, FarColorCell), Cell(Txt_OS, ZeroBlueCell)>>),
      Row(<<Plain(Txt_Lab), Cell(Txt_OS, NoColor)>>),
      Row(<<Plain(Txt_Divider), Cell(Txt_OS, BatchColorCell), Plain(<<>>)>>),
      Row(<<Plain(<<>>), Cell(Txt_OS, BatchColorCell)>>) }

RECURSIVE Repeat(_, _)
Repeat(x, n) == IF n = 0 THEN <<>> ELSE <<x>> \o Repeat(x, n - 1)

(***************************************************************************)
(* Bounds                                                                  *)
(***************************************************************************)
\* Rows above the header row: up to one more than the scan limit.
MaxPadRows == 11
\* Data rows under the header row.
MaxDataRows == 2
\* Invocations of fetchSchedule.
MaxCycles == 2
\* How many of CONFIG.SHEET_NAMES are fetched.
NumDays == 2
\* The wall clock's last value.
MaxClock == 2
\* Classes given to getNextClass.
MaxClasses == 3

SHEET_NAMES == <<"Monday", "Tuesday", "Wednesday", "Thursday", "Friday", "Saturday">>
Days == { SHEET_NAMES[i] : i \in 1..Min(NumDays, Len(SHEET_NAMES)) }
Cycles == 1..MaxCycles

RECURSIVE SeqsUpTo(_, _)
SeqsUpTo(S, n) ==
    IF n = 0 THEN { <<>> }
    ELSE LET shorter == SeqsUpTo(S, n - 1)
         IN shorter \cup { <<x>> \o q : x \in S, q \in { r \in shorter : Len(r) = n - 1 } }

\* Sheets for the parser checks: pad rows, then maybe a header row, then data rows.
ParserGrids ==
    { NoGrid }
    \cup { Grid(Repeat(pad, k) \o hdr \o data) :
             pad \in PadRows, k \in 0..MaxPadRows,
             hdr \in { <<h>> : h \in HeaderRows } \cup { <<>> },
             data \in SeqsUpTo(SheetDataRows, MaxDataRows) }

\* Sheets a day fetch of the orchestrator may return.
SheetGrids ==
    { NoGrid,
      Grid(<<Row(<<Plain(Txt_Room), Plain(Txt_Slot1)>>),
             Row(<<Plain(Txt_R1), Cell(Txt_OS, BatchColorCell)>>)>>),
      Grid(<<Row(<<Plain(Txt_Room), Plain(Txt_Slot1)>>),
             Row(<<Plain(Txt_Lab), Cell(Txt_DB, BatchColorCell)>>)>>),
      Grid(Repeat(NoValuesRow, HeaderScanLimit)
             \o <<Row(<<Plain(Txt_Room), Plain(Txt_Slot1)>>),
                  Row(<<Plain(Txt_R1), Cell(Txt_OS, BatchColorCell)>>)>>) }

(***************************************************************************)
(* The state after construction (lines 48-58), nothing fetched yet.        *)
(***************************************************************************)
NoRef == [kind |-> "init", id |-> 0]
NoCacheList == [present |-> FALSE, list |-> <<>>]
NoCacheTs == [present |-> FALSE, ts |-> 0]

StateConstructed ==
    /\ pc = [c \in Cycles |-> "idle"]
    /\ days = [c \in Cycles |-> [d \in Days |-> "pending"]]
    /\ arr = [c \in Cycles |-> <<>>]
    /\ successCount = [c \in Cycles |-> 0]
    /\ outcome = [c \in Cycles |-> "none"]
    /\ loaded = [c \in Cycles |-> <<>>]
    /\ schedRef = NoRef
    /\ dataSource = "loading"
    /\ lastUpdated = 0
    /\ isLoading = TRUE
    /\ error = "null"
    /\ now = 1
    /\ timerOn = FALSE
    /\ dayResult = [c \in Cycles |-> [d \in Days |-> <<>>]]
    /\ cacheWrite = [c \in Cycles |-> "none"]
    /\ log = <<>>

EmptyCache == cacheList = NoCacheList /\ cacheTs = NoCacheTs

ParserIdle ==
    /\ pGrid = NoGrid
    /\ pDay = SHEET_NAMES[1]
    /\ pOut = [done |-> FALSE, schedule |-> <<>>, successCount |-> 0]

ColorIdle ==
    /\ cColor = NoColor
    /\ cOut = [done |-> FALSE, result |-> FALSE]

\* No time text given, nothing computed.
NoTime == [kind |-> "none", h1 |-> 0, m1 |-> 0, h2 |-> 0, m2 |-> 0,
           pad |-> FALSE, spaced |-> FALSE]
NoMinutes == [done |-> FALSE, whole |-> 0, start |-> 0, end |-> 0]

\* upcoming[0] || null when upcoming is empty.
Null == [subject |-> 0, time |-> <<>>, startMinutes |-> NaN]

TimeIdle ==
    /\ tIn = NoTime
    /\ tOut = NoMinutes

NextIdle ==
    /\ todayClasses = <<>>
    /\ currentMinutes = 0
    /\ nOut = [done |-> FALSE, result |-> Null]

(***************************************************************************)
(* Classifier checks: matchesBatchColor on one color                       *)
(***************************************************************************)
RedInputs == {Absent, 0, 471, 472, 522, 572, 573}
GreenInputs == {Absent, 0, 74, 75, 125, 175, 176}
BlueInputs == {Absent, 0, 1, 47, 97, 98}

ColorInputs ==
    { NoColor } \cup { Color(r, g, b) : r \in RedInputs, g \in GreenInputs, b \in BlueInputs }

ColorInit ==
    /\ StateConstructed /\ EmptyCache /\ ParserIdle /\ TimeIdle /\ NextIdle
    /\ cColor \in ColorInputs
    /\ cOut = [done |-> FALSE, result |-> FALSE]

CheckColor ==
    /\ ~cOut.done
    /\ cOut' = [done |-> TRUE, result |-> matchesBatchColor(cColor)]
    /\ UNCHANGED <<cColor, ovars, pvars, tvars, nvars>>

ColorNext == CheckColor

ColorSpec == ColorInit /\ [][ColorNext]_vars

(***************************************************************************)
(* Parser checks: one day callback (lines 426-431) on one sheet            *)
(***************************************************************************)
ParserInit ==
    /\ StateConstructed /\ EmptyCache /\ ColorIdle /\ TimeIdle /\ NextIdle
    /\ pGrid \in ParserGrids
    /\ pDay \in Days
    /\ pOut = [done |-> FALSE, schedule |-> <<>>, successCount |-> 0]

DayFetched ==
    /\ ~pOut.done
    /\ pOut' = [done |-> TRUE] @@ DayCallback(pOut.schedule, pOut.successCount, pGrid, pDay)
    /\ UNCHANGED <<pGrid, pDay, ovars, cvars, tvars, nvars>>

ParserNext == DayFetched

ParserSpec == ParserInit /\ [][ParserNext]_vars

(***************************************************************************)
(* Time checks: timeToMinutes on one time text, and on the two sides that  *)
(* formatTime makes of it                                                  *)
(***************************************************************************)
DigitChars == <<"0", "1", "2", "3", "4", "5", "6", "7", "8", "9">>

TwoDigits(n) == << DigitChars[(n \div 10) + 1], DigitChars[(n % 10) + 1] >>

\* "H:MM", the hour with a leading zero or without.
TimeText(h, m, pad) ==
    (IF h >= 10 \/ pad THEN TwoDigits(h) ELSE << DigitChars[h + 1] >>)
        \o <<":">> \o TwoDigits(m)

\* The text of a time input: "H:MM", or "H:MM-H:MM" with or without spaces
\* around the hyphen.
TextOf(in) ==
    IF in.kind = "single" THEN TimeText(in.h1, in.m1, in.pad)
    ELSE TimeText(in.h1, in.m1, in.pad)
             \o (IF in.spaced THEN <<" ", "-", " ">> ELSE <<"-">>)
             \o TimeText(in.h2, in.m2, in.pad)

Hours == 0..23
SingleMinutes == {0, 5, 15, 30, 59}
StartMinutes == {0, 15, 59}
EndMinutes == {15, 30}

TimeInputs ==
    { [kind |-> "single", h1 |-> h, m1 |-> m, h2 |-> 0, m2 |-> 0,
       pad |-> p, spaced |-> FALSE] : h \in Hours, m \in SingleMinutes, p \in BOOLEAN }
    \cup
    { [kind |-> "range", h1 |-> a, m1 |-> m, h2 |-> b, m2 |-> n,
       pad |-> p, spaced |-> sp] :
          a \in Hours, m \in StartMinutes, b \in Hours, n \in EndMinutes,
          p \in BOOLEAN, sp \in BOOLEAN }

TimeInit ==
    /\ StateConstructed /\ EmptyCache /\ ParserIdle /\ ColorIdle /\ NextIdle
    /\ tIn \in TimeInputs
    /\ tOut = NoMinutes

\* timeToMinutes of the text, and of each side formatTime gives.
TimeConverted ==
    /\ ~tOut.done
    /\ tOut' = [done |-> TRUE,
                whole |-> timeToMinutes(TextOf(tIn)),
                start |-> timeToMinutes(formatTime(TextOf(tIn)).start),
                end |-> timeToMinutes(formatTime(TextOf(tIn)).end)]
    /\ UNCHANGED <<tIn, ovars, pvars, cvars, nvars>>

TimeNext == TimeConverted

TimeSpec == TimeInit /\ [][TimeNext]_vars

(***************************************************************************)
(* Next-class checks: getNextClass on one list of classes at one minute    *)
(***************************************************************************)
Txt_Nine == <<"9",":","0","0","-","1","0",":","0","0">>
Txt_NineSpaced == <<"0","9",":","0","0"," ","-"," ","1","0",":","3","0">>
Txt_Ten == <<"1","0",":","0","0","-","1","1",":","0","0">>
Txt_Three == <<"3",":","0","0","-","4",":","0","0">>
Txt_NoStart == <<"T","B","A">>

\* Times that start at minutes 540, 540, 600 and 900, an empty one (0) and
\* one without a colon (NaN).
ClassTimes == { Txt_Nine, Txt_NineSpaced, Txt_Ten, Txt_Three, Txt_NoStart, <<>> }

\* The classes are told apart by their place in the list.
ClassLists ==
    { [k \in 1..Len(times) |-> [subject |-> k, time |-> times[k]]] :
          times \in SeqsUpTo(ClassTimes, MaxClasses) }

NowInputs == {0, 539, 540, 595, 600, 899, 900, 1439}

NextInit ==
    /\ StateConstructed /\ EmptyCache /\ ParserIdle /\ ColorIdle /\ TimeIdle
    /\ todayClasses \in ClassLists
    /\ currentMinutes \in NowInputs
    /\ nOut = [done |-> FALSE, result |-> Null]

NextClassComputed ==
    /\ ~nOut.done
    /\ nOut' = [done |-> TRUE, result |-> getNextClass(todayClasses, currentMinutes)]
    /\ UNCHANGED <<todayClasses, currentMinutes, ovars, pvars, cvars, tvars>>

NextClassNext == NextClassComputed

NextSpec == NextInit /\ [][NextClassNext]_vars

(***************************************************************************)
(* Fetch orchestrator: fetchSchedule (lines 413-467), its triggers, and    *)
(* the cache (lines 469-493).  Each invocation c owns the locals of one    *)
(* call; invocations are numbered in the order they are called.            *)
(***************************************************************************)
SharingError == "Unable to fetch schedule. Please ensure the Google Sheet is shared."
ConnectivityError == "Unable to load schedule. Please check your internet connection."

\* A commit that yields to a later call's result already in place.
CycleRef_KeepsLaterCall(c) ==
    IF \E b \in (c + 1)..MaxCycles : schedRef = [kind |-> "cycle", id |-> b]
    THEN schedRef
    ELSE [kind |-> "cycle", id |-> c]

CycleRef(c) == [kind |-> "cycle", id |-> c]
CacheRef(c) == [kind |-> "cache", id |-> c]

\* The array state.schedule refers to.
Deref(ref) ==
    CASE ref.kind = "cycle" -> arr[ref.id]
      [] ref.kind = "cache" -> loaded[ref.id]
      [] OTHER -> <<>>

Schedule == Deref(schedRef)

\* A join that resolves with the first day to settle.
AllSettled_FirstSettled(c) == \E d \in Days : days[c][d] # "pending"

\* Promise.allSettled(fetchPromises) has resolved (line 437).
AllSettled(c) == \A d \in Days : days[c][d] # "pending"

\* The aggregate rule without its second conjunct.
IsLiveSuccess_CountOnly(count, schedule) == count > 0

\* Line 439.
IsLiveSuccess(count, schedule) == count > 0 /\ Len(schedule) > 0

\* A write that stores the timestamp and leaves the list as it was.
cacheSchedule_TimestampOnly(schedule, write) ==
    [list |-> cacheList,
     ts   |-> IF write = "ok" THEN [present |-> TRUE, ts |-> now] ELSE cacheTs]

\* Lines 469-476.  write is how localStorage.setItem goes: "ok", "fail1" (the
\* first call throws) or "fail2" (the second call throws); neither escapes.
cacheSchedule(schedule, write) ==
    [list |-> IF write = "fail1" THEN cacheList
              ELSE [present |-> TRUE, list |-> schedule],
     ts   |-> IF write = "ok" THEN [present |-> TRUE, ts |-> now] ELSE cacheTs]

\* The fallback stamped with the time of the load, not of the snapshot.
loadCachedSchedule_StampsNow ==
    IF cacheList.present /\ cacheTs.present
    THEN [ok |-> TRUE, schedule |-> cacheList.list, timestamp |-> now]
    ELSE [ok |-> FALSE, schedule |-> <<>>, timestamp |-> 0]

\* The snapshot accepted without its timestamp.
loadCachedSchedule_IgnoresTimestamp ==
    IF cacheList.present
    THEN [ok |-> TRUE, schedule |-> cacheList.list, timestamp |-> cacheTs.ts]
    ELSE [ok |-> FALSE, schedule |-> <<>>, timestamp |-> 0]

\* Lines 478-493.  JSON.parse(JSON.stringify(x)) of a list of sessions, whose
\* fields are strings and booleans, and new Date(d.toISOString()), give back
\* equal values; ok FALSE is the null result.
loadCachedSchedule ==
    IF cacheList.present /\ cacheTs.present
    THEN [ok |-> TRUE, schedule |-> cacheList.list, timestamp |-> cacheTs.ts]
    ELSE [ok |-> FALSE, schedule |-> <<>>, timestamp |-> 0]

\* Line 448.
CacheUsable(cached) == cached.ok /\ Len(cached.schedule) > 0

\* The invocation a trigger starts: the next one not yet called.
NextCycle(c) == pc[c] = "idle" /\ \A b \in 1..(c - 1) : pc[b] # "idle"

\* Lines 414-435: up to the first await.  throws: updateUI (line 417), the
\* only call of the try block not wrapped in a try/catch of its own, throws,
\* and the catch block (lines 461-466) runs before any fetch is issued.
FetchBegin(c, throws) ==
    /\ NextCycle(c)
    /\ IF throws
       THEN /\ pc' = [pc EXCEPT ![c] = "done"]
            /\ outcome' = [outcome EXCEPT ![c] = "exception"]
            /\ error' = ConnectivityError
            /\ isLoading' = FALSE
            /\ log' = log \o << <<"start", c>>, <<"finish", c>> >>
       ELSE /\ pc' = [pc EXCEPT ![c] = "fetching"]
            /\ outcome' = outcome
            /\ error' = "null"
            /\ isLoading' = TRUE
            /\ log' = Append(log, <<"start", c>>)
    /\ UNCHANGED <<days, arr, successCount, loaded, schedRef, dataSource, lastUpdated,
                   cacheList, cacheTs, now, dayResult, cacheWrite, pvars, cvars, tvars, nvars>>

\* Lines 836-848: init() calls fetchSchedule once; when the catch block's own
\* updateUI throws again, init is rejected and startAutoRefresh never runs.
Startup ==
    \E throws \in BOOLEAN, rethrows \in BOOLEAN :
        /\ pc[1] = "idle"
        /\ FetchBegin(1, throws)
        /\ timerOn' = (throws /\ ~rethrows)

\* Lines 825-830: the interval timer fires.
TimerFires ==
    \E c \in Cycles, throws \in BOOLEAN :
        /\ timerOn
        /\ FetchBegin(c, throws)
        /\ timerOn' = timerOn

\* Lines 770-777: a click on the refresh button.
RefreshClick ==
    \E c \in Cycles, throws \in BOOLEAN :
        /\ pc[1] # "idle"
        /\ FetchBegin(c, throws)
        /\ timerOn' = timerOn

\* Line 779: a click on the retry button.
RetryClick ==
    \E c \in Cycles, throws \in BOOLEAN :
        /\ pc[1] # "idle"
        /\ FetchBegin(c, throws)
        /\ timerOn' = timerOn

\* A callback that pushes into state.schedule as the days arrive.
DayStored_Patching(c, d, r) ==
    /\ arr' = [arr EXCEPT ![c] = r.schedule]
    /\ successCount' = [successCount EXCEPT ![c] = r.successCount]
    /\ dayResult' = [dayResult EXCEPT ![c][d] =
                        SubSeq(r.schedule, Len(arr[c]) + 1, Len(r.schedule))]
    /\ schedRef' = [kind |-> "cycle", id |-> c]

\* The day callback's result r stored into invocation c.
DayStored(c, d, r) ==
    /\ arr' = [arr EXCEPT ![c] = r.schedule]
    /\ successCount' = [successCount EXCEPT ![c] = r.successCount]
    /\ dayResult' = [dayResult EXCEPT ![c][d] =
                        SubSeq(r.schedule, Len(arr[c]) + 1, Len(r.schedule))]
    \* The push goes into the local array; state.schedule is not touched.
    /\ schedRef' = schedRef

\* Lines 426-431: a day's fetch resolves with gridData.
DayResolves(c, d, gridData) ==
    /\ pc[c] = "fetching"
    /\ days[c][d] = "pending"
    /\ DayStored(c, d, DayCallback(arr[c], successCount[c], gridData, d))
    /\ days' = [days EXCEPT ![c][d] = "ok"]
    /\ UNCHANGED <<pc, outcome, loaded, dataSource, lastUpdated, isLoading,
                   error, cacheList, cacheTs, now, timerOn, cacheWrite, log, pvars, cvars, tvars, nvars>>

\* Lines 432-434: a day's fetch throws (transport or API error); the day's
\* callback catches it.
DayRejects(c, d) ==
    /\ pc[c] = "fetching"
    /\ days[c][d] = "pending"
    /\ days' = [days EXCEPT ![c][d] = "failed"]
    /\ UNCHANGED <<pc, arr, successCount, outcome, loaded, schedRef, dataSource,
                   lastUpdated, isLoading, error, cacheList, cacheTs, now, timerOn,
                   dayResult, cacheWrite, log, pvars, cvars, tvars, nvars>>

\* Lines 437-459: the continuation of fetchSchedule after the join; and for
\* the invocation init() awaits, lines 844-845.
Commit(c, write) ==
    /\ pc[c] = "fetching"
    /\ AllSettled(c)
    /\ LET cached == loadCachedSchedule
       IN IF IsLiveSuccess(successCount[c], arr[c])
          THEN /\ schedRef' = CycleRef(c)
               /\ dataSource' = "live"
               /\ lastUpdated' = now
               /\ cacheList' = cacheSchedule(arr[c], write).list
               /\ cacheTs' = cacheSchedule(arr[c], write).ts
               /\ cacheWrite' = [cacheWrite EXCEPT ![c] = write]
               /\ outcome' = [outcome EXCEPT ![c] = "live"]
               /\ UNCHANGED <<loaded, error>>
          ELSE IF CacheUsable(cached)
          THEN /\ schedRef' = CacheRef(c)
               /\ loaded' = [loaded EXCEPT ![c] = cached.schedule]
               /\ dataSource' = "cached"
               /\ lastUpdated' = cached.timestamp
               /\ outcome' = [outcome EXCEPT ![c] = "cached"]
               /\ UNCHANGED <<error, cacheList, cacheTs, cacheWrite>>
          ELSE /\ error' = SharingError
               /\ outcome' = [outcome EXCEPT ![c] = "failed"]
               /\ UNCHANGED <<schedRef, loaded, dataSource, lastUpdated,
                              cacheList, cacheTs, cacheWrite>>
    /\ isLoading' = FALSE
    /\ pc' = [pc EXCEPT ![c] = "done"]
    /\ log' = Append(log, <<"finish", c>>)
    /\ timerOn' = (timerOn \/ c = 1)
    /\ UNCHANGED <<days, arr, successCount, now, dayResult, pvars, cvars, tvars, nvars>>

\* Time passes.
Tick ==
    /\ now < MaxClock
    /\ now' = now + 1
    /\ UNCHANGED <<pc, days, arr, successCount, outcome, loaded, schedRef, dataSource,
                   lastUpdated, isLoading, error, cacheList, cacheTs, timerOn,
                   dayResult, cacheWrite, log, pvars, cvars, tvars, nvars>>

\* What an earlier page load may have left in localStorage: nothing, a
\* snapshot, or a snapshot whose timestamp write failed.
PriorSnapshot ==
    parseGoogleSheetData(Grid(<<Row(<<Plain(Txt_Room), Plain(Txt_Slot2)>>),
                                Row(<<Plain(Txt_Lab), Cell(Txt_OSLower, NearColorCell)>>)>>),
                         SHEET_NAMES[Len(SHEET_NAMES)])

Init ==
    /\ StateConstructed /\ ParserIdle /\ ColorIdle /\ TimeIdle /\ NextIdle
    /\ \/ EmptyCache
       \/ /\ cacheList = [present |-> TRUE, list |-> PriorSnapshot]
          /\ cacheTs \in { NoCacheTs, [present |-> TRUE, ts |-> 1] }

Next ==
    \/ Startup
    \/ TimerFires
    \/ RefreshClick
    \/ RetryClick
    \/ \E c \in Cycles, d \in Days, g \in SheetGrids : DayResolves(c, d, g)
    \/ \E c \in Cycles, d \in Days : DayRejects(c, d)
    \/ \E c \in Cycles, w \in {"ok", "fail1", "fail2"} : Commit(c, w)
    \/ Tick

Spec == Init /\ [][Next]_vars

\* The continuation after the join is a microtask: once every day has
\* settled it runs.
FairSpec == Spec /\ \A c \in Cycles : WF_vars(\E w \in {"ok", "fail1", "fail2"} : Commit(c, w))

(***************************************************************************)
(* Properties of the fetch orchestrator                                    *)
(***************************************************************************)
\* Invocation c finishes in this step through the aggregate rule.
Commits(c) == pc[c] = "fetching" /\ pc'[c] = "done"

\* Invocation c finishes in this step, by any path.
Finishes(c) == pc[c] # "done" /\ pc'[c] = "done"

OkDays(c) == { d \in Days : days[c][d] = "ok" }
FailedDays(c) == { d \in Days : days[c][d] = "failed" }

\* The cache holds a timestamp and a list with at least one session.
CacheHasSnapshot == cacheList.present /\ cacheTs.present /\ Len(cacheList.list) >= 1

\* C1: a cycle commits as a live success exactly when at least one day
\* succeeded and its combined list is non-empty; that commit replaces Schedule
\* by the combined list, marks the source "live", stamps lastUpdated with the
\* clock and writes the cache (cacheSchedule is called, and stores the list
\* and the clock when its writes go through); a cycle whose days succeeded
\* with no session at all goes to the cache branch instead.
C1_AggregateRule ==
    [][\A c \in Cycles : Commits(c) =>
          /\ (outcome'[c] = "live") <=> (OkDays(c) # {} /\ Len(arr[c]) > 0)
          /\ outcome'[c] = "live" =>
                /\ Schedule' = arr[c]
                /\ dataSource' = "live"
                /\ lastUpdated' = now
                /\ cacheWrite'[c] \in {"ok", "fail1", "fail2"}
                /\ cacheWrite'[c] = "ok" =>
                      /\ cacheList' = [present |-> TRUE, list |-> arr[c]]
                      /\ cacheTs' = [present |-> TRUE, ts |-> now]
          /\ (OkDays(c) # {} /\ arr[c] = <<>>) =>
                /\ outcome'[c] \in {"cached", "failed"}
                /\ outcome'[c] = "cached" <=> CacheHasSnapshot
      ]_vars

\* One invocation committed live; another, with a day that succeeded, a day
\* that failed and no session, did not.
C1_Witness ==
    \E a \in Cycles, b \in Cycles :
        /\ outcome[a] = "live" /\ Schedule = arr[a] /\ cacheWrite[a] = "ok"
        /\ outcome[b] \in {"cached", "failed"}
        /\ OkDays(b) # {} /\ FailedDays(b) # {} /\ arr[b] = <<>>

C3_FailedLeavesState ==
    [][\A c \in Cycles :
          (Commits(c) /\ ~(OkDays(c) # {} /\ Len(arr[c]) > 0) /\ ~CacheHasSnapshot) =>
              /\ outcome'[c] = "failed"
              /\ error' # "null"
              /\ schedRef' = schedRef /\ Schedule' = Schedule
              /\ dataSource' = dataSource
              /\ lastUpdated' = lastUpdated
              /\ cacheList' = cacheList /\ cacheTs' = cacheTs
      ]_vars

\* A failed cycle that left an earlier live Schedule in place.
C3_Witness ==
    \E c \in Cycles :
        /\ outcome[c] = "failed" /\ error = SharingError
        /\ Schedule # <<>> /\ dataSource = "live"

\* The sessions of day d in a list.
OfDay(list, d) == SelectSeq(list, LAMBDA x : x.day = d)

RECURSIVE SumLen(_, _)
SumLen(c, ds) ==
    IF ds = {} THEN 0
    ELSE LET d == CHOOSE x \in ds : TRUE
         IN Len(dayResult[c][d]) + SumLen(c, ds \ {d})

\* C4: the aggregate rule runs only once every day of the cycle has settled;
\* a day's failure changes nothing but that day's status (the cycle goes on,
\* no error is set, the sessions pushed so far stay); and at the commit the
\* combined list holds exactly the sessions of the days that succeeded, the
\* success count being the number of those days.
C4_AllSettle ==
    [][\A c \in Cycles :
          /\ Commits(c) =>
                /\ \A d \in Days : days[c][d] \in {"ok", "failed"}
                /\ \A d \in OkDays(c) : OfDay(arr[c], d) = dayResult[c][d]
                /\ \A d \in FailedDays(c) : OfDay(arr[c], d) = <<>>
                /\ Len(arr[c]) = SumLen(c, OkDays(c))
                /\ successCount[c] = Cardinality(OkDays(c))
                /\ OkDays(c) # {} /\ arr[c] # <<>> => Schedule' = arr[c]
          /\ \A d \in Days :
                (days[c][d] = "pending" /\ days'[c][d] = "failed") =>
                    /\ pc'[c] = "fetching" /\ outcome'[c] = "none"
                    /\ error' = error /\ isLoading' = isLoading
                    /\ arr' = arr /\ successCount' = successCount
                    /\ \A e \in Days \ {d} : days'[c][e] = days[c][e]
      ]_vars

\* A cycle committed live although one of its days failed, with the other
\* day's sessions in Schedule.
C4_Witness ==
    \E c \in Cycles :
        /\ outcome[c] = "live" /\ FailedDays(c) # {} /\ OkDays(c) # {}
        /\ schedRef = [kind |-> "cycle", id |-> c] /\ Schedule # <<>>
        /\ \A d \in OkDays(c) : OfDay(Schedule, d) = dayResult[c][d]

\* C5: a cycle whose days have all settled eventually finishes; and whenever
\* a cycle finishes, by a live success, a fallback, a failure or the catch
\* block, isLoading is false and Schedule is non-empty or an error is set.
C5_FinishesRenderable ==
    /\ \A c \in Cycles :
          (pc[c] = "fetching" /\ \A d \in Days : days[c][d] # "pending") ~> (pc[c] = "done")
    /\ [][\A c \in Cycles : Finishes(c) =>
              /\ isLoading' = FALSE
              /\ Schedule' # <<>> \/ error' # "null"
              /\ outcome'[c] \in {"live", "cached", "failed", "exception"}
         ]_vars

\* Both kinds of failure path finished: one cycle failed with nothing to show,
\* the other ended in the catch block.
C5_Witness ==
    \E a \in Cycles, b \in Cycles :
        /\ pc[a] = "done" /\ outcome[a] = "failed"
        /\ pc[b] = "done" /\ outcome[b] = "exception"
        /\ ~isLoading /\ Schedule = <<>> /\ error # "null"

\* The order of the log's events.
Pos(ev) == CHOOSE i \in 1..Len(log) : log[i] = ev
Logged(ev) == \E i \in 1..Len(log) : log[i] = ev

\* Invocation b was called while invocation a was in flight.
Overlap(a, b) ==
    /\ a < b
    /\ Logged(<<"start", b>>) /\ Logged(<<"finish", a>>)
    /\ Pos(<<"start", b>>) < Pos(<<"finish", a>>)

\* The invocations that replaced Schedule, and what each put there.
Committed(c) == pc[c] = "done" /\ outcome[c] \in {"live", "cached"}
ResultRef(c) ==
    [kind |-> IF outcome[c] = "live" THEN "cycle" ELSE "cache", id |-> c]
Result(c) == Deref(ResultRef(c))

\* No invocation other than a and b replaced Schedule after both finished.
LastOfPair(a, b) ==
    \A x \in Cycles \ {a, b} :
        Committed(x) => /\ Pos(<<"finish", x>>) < Pos(<<"finish", a>>)
                        /\ Pos(<<"finish", x>>) < Pos(<<"finish", b>>)

FinishedLater(a, b) ==
    IF Pos(<<"finish", a>>) > Pos(<<"finish", b>>) THEN a ELSE b

\* C6 as stated: of two overlapping cycles that both commit a Schedule, the
\* one invoked later leaves its result in Schedule.
C6_LaterCallWins ==
    \A a \in Cycles, b \in Cycles :
        (Overlap(a, b) /\ Committed(a) /\ Committed(b) /\ LastOfPair(a, b)) =>
            Schedule = Result(b)

\* C6 as amended: of two overlapping cycles that both commit a Schedule, the
\* one that finishes later leaves its result in Schedule, whichever was
\* invoked first.
C6_LaterFinishWins ==
    \A a \in Cycles, b \in Cycles :
        (Overlap(a, b) /\ Committed(a) /\ Committed(b) /\ LastOfPair(a, b)) =>
            /\ schedRef = ResultRef(FinishedLater(a, b))
            /\ Schedule = Result(FinishedLater(a, b))

\* The earlier call finished last and its result replaced the later call's.
C6_Witness ==
    \E a \in Cycles, b \in Cycles :
        /\ Overlap(a, b) /\ Committed(a) /\ Committed(b) /\ LastOfPair(a, b)
        /\ FinishedLater(a, b) = a
        /\ Result(a) # Result(b)
        /\ Schedule = Result(a)

\* What the cache can hold: an earlier page load's snapshot or the combined
\* list of a cycle that committed live.
Snapshots ==
    { PriorSnapshot } \cup { arr[c] : c \in { x \in Cycles : outcome[x] = "live" } }

\* C7: Schedule is the initial empty list, or the whole combined list of one
\* cycle that has finished with all its days settled, or one cached snapshot;
\* it is never the array of a cycle in flight.
C7_WholesaleReplace ==
    /\ schedRef.kind \in {"init", "cycle", "cache"}
    /\ schedRef.kind = "init" => Schedule = <<>>
    /\ schedRef.kind = "cycle" =>
          /\ pc[schedRef.id] = "done" /\ outcome[schedRef.id] = "live"
          /\ \A d \in Days : days[schedRef.id][d] \in {"ok", "failed"}
          /\ Len(Schedule) = SumLen(schedRef.id, OkDays(schedRef.id))
          /\ \A d \in Days : OfDay(Schedule, d) = dayResult[schedRef.id][d]
    /\ schedRef.kind = "cache" =>
          /\ outcome[schedRef.id] = "cached"
          /\ Schedule \in Snapshots
    /\ \A c \in Cycles : pc[c] = "fetching" => schedRef.id # c

\* Two cycles overlap, one has replaced Schedule and the other is in flight
\* with sessions of its own already pushed.
C7_Witness ==
    \E a \in Cycles, b \in Cycles :
        /\ schedRef = [kind |-> "cycle", id |-> a] /\ pc[b] = "fetching"
        /\ Logged(<<"start", a>>) /\ Logged(<<"start", b>>)
        /\ Pos(<<"start", b>>) < Pos(<<"finish", a>>)
        /\ Pos(<<"start", a>>) < Pos(<<"start", b>>) \/ a > b
        /\ arr[b] # <<>> /\ arr[b] # arr[a]

(***************************************************************************)
(* Parser and classifier properties, stated on the sheet itself            *)
(***************************************************************************)
\* The text holds "(SE-C)" in any letter case.
HasMarker(text) ==
    \E i \in 1..(Len(text) - 5) :
        /\ text[i] = "("
        /\ text[i + 1] \in {"S", "s"}
        /\ text[i + 2] \in {"E", "e"}
        /\ text[i + 3] = "-"
        /\ text[i + 4] \in {"C", "c"}
        /\ text[i + 5] = ")"

\* Every channel is given and is within the tolerance of the reference color.
WithinTolerance(bg) ==
    /\ bg.present
    /\ bg.red # Absent /\ bg.green # Absent /\ bg.blue # Absent
    /\ bg.red >= 522 - 50 /\ bg.red <= 522 + 50
    /\ bg.green >= 125 - 50 /\ bg.green <= 125 + 50
    /\ bg.blue >= 47 - 50 /\ bg.blue <= 47 + 50

\* The cells of the sheet, by row and column.
CellPositions(grid) ==
    IF ~grid.hasRowData THEN {}
    ELSE { <<i, j>> \in (1..Len(grid.rowData)) \X (1..3) :
             /\ grid.rowData[i].hasValues
             /\ j <= Len(grid.rowData[i].values) }

CellOf(grid, p) == grid.rowData[p[1]].values[p[2]]

\* The cells with the marker and a background within tolerance.
MarkedCells(grid) ==
    { p \in CellPositions(grid) :
        HasMarker(CellOf(grid, p).fv) /\ WithinTolerance(CellOf(grid, p).bg) }

\* C8: no Session is emitted for text without the marker "(SE-C)"; every
\* Session comes from a cell of the sheet that has the marker and a
\* background within tolerance of the batch color, there are no more
\* Sessions than such cells, and every Session carries the day passed to the
\* parser, which is one of the sheet names.
C8_OnlyMarkedCells ==
    pOut.done =>
        /\ \A k \in 1..Len(pOut.schedule) :
              /\ HasMarker(pOut.schedule[k].rawContent)
              /\ \E p \in MarkedCells(pGrid) :
                     CellOf(pGrid, p).fv = pOut.schedule[k].rawContent
              /\ pOut.schedule[k].day = pDay
              /\ \E n \in 1..Len(SHEET_NAMES) : pOut.schedule[k].day = SHEET_NAMES[n]
        /\ Len(pOut.schedule) <= Cardinality(MarkedCells(pGrid))

\* Under a header row that makes column 2 a time column, a cell in the batch
\* color but without the marker is passed over and a marked cell is emitted.
C8_Witness ==
    /\ pOut.done /\ Len(pOut.schedule) = 2
    /\ \E p \in CellPositions(pGrid) :
          /\ p[1] > FindHeaderRow(pGrid.rowData) + 1 /\ p[2] = 3
          /\ CellOf(pGrid, p).fv = Txt_NoParens
          /\ CellOf(pGrid, p).bg = BatchColorCell
          /\ \A k \in 1..Len(pOut.schedule) : pOut.schedule[k].rawContent # Txt_NoParens

\* The row holds, in a column of index >= 1, text with both ':' and '-'.
HoldsTimeRange(row) ==
    /\ row.hasValues
    /\ \E j \in 2..Len(row.values) :
          /\ \E a \in 1..Len(row.values[j].fv) : row.values[j].fv[a] = ":"
          /\ \E b \in 1..Len(row.values[j].fv) : row.values[j].fv[b] = "-"

\* The ordinal of the first such row of the sheet, 0 when there is none.
FirstTimeRow(grid) ==
    LET holding == { i \in 1..Len(grid.rowData) : HoldsTimeRange(grid.rowData[i]) }
    IN IF holding = {} THEN 0
       ELSE CHOOSE i \in holding : \A k \in holding : i <= k

\* C9: the header row is the first row, among the first 10, that holds a
\* time range in a column of index >= 1, and the Sessions are those of the
\* rows under it; when the first such row is the 11th or later, or there is
\* none, the day yields zero Sessions and still counts as a successful fetch.
C9_HeaderScanBound ==
    pOut.done =>
        /\ pOut.successCount = 1
        /\ FirstTimeRow(pGrid) \in 1..10 =>
              /\ FindHeaderRow(pGrid.rowData) = FirstTimeRow(pGrid) - 1
              /\ pOut.schedule =
                     DataRows(pGrid.rowData,
                              TimeColumns(pGrid.rowData[FirstTimeRow(pGrid)]),
                              FirstTimeRow(pGrid), pDay)
        /\ FirstTimeRow(pGrid) \notin 1..10 => pOut.schedule = <<>>

\* The header row is the 11th row, with a marked cell in the batch color
\* under it: zero Sessions, and the day counted.
C9_Witness ==
    /\ pOut.done /\ pOut.schedule = <<>> /\ pOut.successCount = 1
    /\ FirstTimeRow(pGrid) = 11
    /\ Len(pGrid.rowData) >= 12
    /\ pGrid.rowData[12] =
           Row(<<Plain(Txt_R1), Cell(Txt_OS, BatchColorCell), Cell(Txt_Cancelled, BatchColorCell)>>)

\* C10 as stated: a color of three channels is accepted exactly when every
\* channel is within 0.05 of (0.522, 0.125, 0.047), a channel of 0.0 included.
C10_AcceptedIffWithinTolerance ==
    (cOut.done /\ cColor.present
       /\ cColor.red # Absent /\ cColor.green # Absent /\ cColor.blue # Absent) =>
        (cOut.result <=> WithinTolerance(cColor))

(***************************************************************************)
(* Properties of the time conversion                                       *)
(***************************************************************************)
\* Minutes since midnight of hour h and minute m, hours 1 to 5 read as
\* afternoon hours.
ShiftedMinutes(h, m) == IF h \in 1..5 THEN (h + 12) * 60 + m ELSE h * 60 + m

\* C11: for "H:MM" with H in 0..23 and MM in 0..59, timeToMinutes gives
\* (H+12)*60+MM when H is in 1..5 and H*60+MM otherwise; for "H:MM-H:MM"
\* each side, as formatTime separates it, gets the shift by its own hour
\* whatever the hour of the other side.
C11_AfternoonShift ==
    tOut.done =>
        /\ tIn.kind = "single" =>
              /\ tOut.whole = ShiftedMinutes(tIn.h1, tIn.m1)
              /\ tOut.start = ShiftedMinutes(tIn.h1, tIn.m1)
        /\ tIn.kind = "range" =>
              /\ tOut.start = ShiftedMinutes(tIn.h1, tIn.m1)
              /\ tOut.end = ShiftedMinutes(tIn.h2, tIn.m2)

\* "9:30-2:15"-like range: the end side is shifted, the start side is not.
C11_Witness ==
    /\ tOut.done /\ tIn.kind = "range"
    /\ tIn.h1 = 11 /\ tIn.h2 = 2 /\ tIn.m2 = 15 /\ ~tIn.pad /\ tIn.spaced
    /\ tOut.start = 11 * 60 + tIn.m1 /\ tOut.end = 855
    /\ tOut.whole # tOut.start

(***************************************************************************)
(* Properties of the next-class selection                                  *)
(***************************************************************************)
\* The part of a time before its first hyphen.
BeforeHyphen(time) ==
    IF \E i \in 1..Len(time) : time[i] = "-"
    THEN SubSeq(time, 1, (CHOOSE i \in 1..Len(time) :
                              time[i] = "-" /\ \A j \in 1..(i - 1) : time[j] # "-") - 1)
    ELSE time

\* The start minute of the k-th class given.
StartOf(k) == timeToMinutes(BeforeHyphen(todayClasses[k].time))

\* The places of the classes that start strictly after the current minute.
StartingLater ==
    { k \in 1..Len(todayClasses) : StartOf(k) # NaN /\ StartOf(k) > currentMinutes }

\* C12: getNextClass returns one of the given classes that start strictly
\* after the current minute, one with the least start minute among them, and
\* null when there is none; a class that starts at the current minute or
\* before is never returned.
C12_EarliestAfterNow ==
    nOut.done =>
        /\ StartingLater = {} => nOut.result = Null
        /\ StartingLater # {} =>
              \E k \in StartingLater :
                  /\ nOut.result.subject = k
                  /\ nOut.result.time = todayClasses[k].time
                  /\ nOut.result.startMinutes = StartOf(k)
                  /\ \A j \in StartingLater : StartOf(k) <= StartOf(j)
        /\ nOut.result # Null => nOut.result.startMinutes > currentMinutes

\* Classes at minutes 900, 540 and 600 with the clock at 595: the class at
\* 600 is returned, not the one at 540 or at 900.
C12_Witness ==
    /\ nOut.done
    /\ Len(todayClasses) = 3
    /\ todayClasses[1].time = Txt_Three
    /\ todayClasses[2].time = Txt_Nine
    /\ todayClasses[3].time = Txt_Ten
    /\ currentMinutes = 595
    /\ nOut.result.subject = 3 /\ nOut.result.startMinutes = 600

(***************************************************************************)
(* Properties of the cache and of overlapping cycles                       *)
(***************************************************************************)
\* Invocation c finishes in this step as a live success.
CommitsLive(c) == Commits(c) /\ outcome'[c] = "live"

C14_NoErrorOnSuccess ==
    [][\A c \in Cycles :
          (Finishes(c) /\ outcome'[c] \in {"live", "cached"}) => error' = "null"
      ]_vars

\* C15 as stated: isLoading is true in every state in which some cycle has
\* been triggered and has not finished, so it is false only when no cycle is
\* in flight.
C15_LoadingWhileInFlight ==
    (\E c \in Cycles : pc[c] = "fetching") => isLoading

====
